---- MODULE Spec2Model ----
(***************************************************************************)
(* Model of the Nautobot jobs of this repository:                          *)
(*                                                                         *)
(*   jobs/example_ssot_data_target.py  ExampleDataTarget, the SSoT job     *)
(*       that pushes Nautobot VLANs to a remote Netbox (specification      *)
(*       Spec);                                                            *)
(*   jobs/example_ssot.py              ExampleDataSource, the SSoT job     *)
(*       that pulls Netbox VLANs into Nautobot (specification Spec, its    *)
(*       dry runs);                                                        *)
(*   jobs/get_version.py               GetShowVersion, the device job      *)
(*       (specification SpecVersion).                                      *)
(*                                                                         *)
(* The jobs run inside the diffsync / nautobot_ssot framework.  The parts  *)
(* of the framework a run goes through are modelled at the place where     *)
(* the repository calls into them: DataTarget.run (load source, load       *)
(* target, diff, sync unless dryrun), DiffSync.add (a second object with   *)
(* the same unique id raises), the diff (elements keyed by unique id) and  *)
(* the sync (the elements of the diff in the order the diff got them, one  *)
(* create / update / delete call each; only ObjectCrudException is         *)
(* tolerated, so an exception of another class leaves the run).            *)
(***************************************************************************)
EXTENDS Integers, Sequences, FiniteSets, TLC

VARIABLES
    job,            \* the SSoT job that runs
    nautobot,       \* the VLAN rows of the Nautobot database
    remote,         \* the VLAN items of the remote Netbox, each with its id
    remoteNextId,   \* the id the remote gives to the next created item
    dryrun,         \* the dryrun argument of run()
    phase,          \* where the run of the SSoT job is
    sourceSnap,     \* source_adapter: the objects loaded from Nautobot
    targetSnap,     \* target_adapter: the objects loaded from the remote
    diff,           \* the diff the run calculated (keys per category)
    plan,           \* the diff elements the sync has still to go through
    reqs,           \* every POST, PATCH, DELETE sent so far, with its response
    raised,         \* where the exception that left run() was raised
    returned,       \* what run() returned
    remote0,        \* the remote items when the run started
    swStore,        \* SoftwareLCM rows
    relStore,       \* RelationshipAssociation rows ("Software on Device")
    nextPk,         \* per table, the primary key of the next row
    queue,          \* GetShowVersion.run: the devices still to go through
    task,           \* the current OnboardVersion object
    vpc,            \* where GetShowVersion.run is
    runNo,          \* the number of the current job run
    parsedLog,      \* the devices whose parse_version returned, this run
    writeLog        \* the devices for which a row was written, this run

syncVars == <<job, nautobot, remote, remoteNextId, dryrun, phase, sourceSnap,
              targetSnap, diff, plan, reqs, raised, returned, remote0>>
versionVars == <<swStore, relStore, nextPk, queue, task, vpc, runNo,
                 parsedLog, writeLog>>
vars == <<syncVars, versionVars>>

-----------------------------------------------------------------------------
(* Bounds and input domains *)

MaxSrc == 2
MaxRemote == 3

\* the remote serves pages of PageSize items: a collection of MaxRemote
\* items has a second page
PageSize == MaxRemote - 1

\* Python's None, as a field value
None == "<none>"

Vids == {10, 20}
Names == {"a"}
GroupNames == {"eng"}
Descriptions == {"old", "new"}
StatusNames == {"active", "Reserved"}

\* pk of a VLANRemoteModel object that was given none (Python's None)
NoPk == 0

-----------------------------------------------------------------------------
(* The VLAN model of the data target job (example_ssot_data_target.py) *)

Identifiers == <<"vid", "name", "vlan_group__name">>

AttributesDescriptionOnly == {"description"}
Attributes == {"description", "status__name"}

\* a row of Nautobot as the Nautobot adapter loads it
NautobotRows ==
    [vid : Vids, name : Names, vlan_group__name : GroupNames \cup {None},
     description : Descriptions, status__name : StatusNames]

\* an item the remote collection holds when the run starts, without its id
RemoteFields ==
    [vid : Vids, name : Names, group : GroupNames \cup {None},
     description : {"old"}, status : {"active"}]

\* identity key of an object: its identifier fields, in declaration order
Key(o) == <<o.vid, o.name, o.vlan_group__name>>

\* the attribute fields of an object, as the dict create() is handed
AttrsOf(o) == [f \in Attributes |-> o[f]]

ObjOf(snap, k) == CHOOSE o \in snap : Key(o) = k

(* The VLAN model of the data source job (example_ssot.py) *)

PullIdentifiers == <<"vid", "group__name">>
PullAttributes == {"description"}
PullKey(o) == <<o.vid, o.group__name>>

\* str.lower() on the status names of the model
Lower(s) ==
    CASE s = "Reserved" -> "reserved"
      [] s = "Active" -> "active"
      [] OTHER -> s

-----------------------------------------------------------------------------
(* MySSoTNautobotAdapter.load: one object per row.  DiffSync.add raises
   ObjectAlreadyExists on a second object with the unique id of one already
   stored: a load raises when two of the rows it goes through give one
   identity key. *)

NautobotObject(row) ==
    [vid |-> row.vid, name |-> row.name,
     vlan_group__name |-> row.vlan_group__name,
     description |-> row.description, status__name |-> row.status__name]

NautobotLoad(rows) == {NautobotObject(r) : r \in rows}
NautobotLoadRaises(rows) ==
    \E r1 \in rows, r2 \in rows :
        r1 # r2 /\ Key(NautobotObject(r1)) = Key(NautobotObject(r2))

-----------------------------------------------------------------------------
(* MySSoTRemoteAdapter._get_api_data and load *)

RECURSIVE SmallestIds(_, _)
SmallestIds(items, n) ==
    IF n = 0 \/ items = {} THEN {}
    ELSE LET first == CHOOSE i \in items : \A j \in items : i.id <= j.id
         IN  {first} \cup SmallestIds(items \ {first}, n - 1)

\* the "results" of the response to GET /api/ipam/vlans/: the first page
FirstPage(items) == SmallestIds(items, PageSize)

\* _get_api_data returns data["results"] of the one GET it sends
GetApiData(items) == FirstPage(items)

\* the object load() builds from one item
LoadedVlan(item) ==
    [vid |-> item.vid, name |-> item.name,
     status__name |-> "active",
     vlan_group__name |-> IF item.group # None THEN item.group ELSE None,
     description |-> item.description,
     pk |-> NoPk]

\* the objects load() adds, one per item of _get_api_data()
RemoteLoad(items) == {LoadedVlan(i) : i \in GetApiData(items)}

\* add() raises inside load() when two items of the data give one key
RemoteLoadRaises(items) ==
    \E i1 \in GetApiData(items), i2 \in GetApiData(items) :
        i1 # i2 /\ Key(LoadedVlan(i1)) = Key(LoadedVlan(i2))

-----------------------------------------------------------------------------
(* The adapters of the data source job (example_ssot.py) *)

\* api_client.ipam.vlans.all(): the items of every page
AllVlans(items) == items

\* the object MySSoTRemoteAdapter.load builds from one item
PullLoadedVlan(item) ==
    [vid |-> item.vid,
     group__name |-> IF item.group # None THEN item.group ELSE None,
     description |-> item.description]

PullRemoteLoad(items) == {PullLoadedVlan(i) : i \in AllVlans(items)}
PullRemoteLoadRaises(items) ==
    \E i1 \in AllVlans(items), i2 \in AllVlans(items) :
        i1 # i2 /\ PullKey(PullLoadedVlan(i1)) = PullKey(PullLoadedVlan(i2))

\* MySSoTNautobotAdapter.load: one object per row, with the model's fields
PullNautobotObject(row) ==
    [vid |-> row.vid, group__name |-> row.vlan_group__name,
     description |-> row.description]

PullNautobotLoad(rows) == {PullNautobotObject(r) : r \in rows}
PullNautobotLoadRaises(rows) ==
    \E r1 \in rows, r2 \in rows :
        r1 # r2 /\ PullKey(PullNautobotObject(r1))
                     = PullKey(PullNautobotObject(r2))

-----------------------------------------------------------------------------
(* The diff of the two adapters *)

(* The diff holds one element per unique id, that is per identity key; the
   two objects of a key are compared on the attributes of the model.  The
   adapters' objects enter it as (key, attrs) entries. *)

Entry(o) == [key |-> Key(o), attrs |-> AttrsOf(o)]
PullEntry(o) ==
    [key |-> PullKey(o), attrs |-> [f \in PullAttributes |-> o[f]]]

EntryKeys(entries) == {e.key : e \in entries}
AttrsAt(entries, k) == (CHOOSE e \in entries : e.key = k).attrs

\* the attributes on which two attrs dicts of one model differ
ChangedIn(sa, ta) == {f \in DOMAIN sa : sa[f] # ta[f]}

DiffEntries(src, dst) ==
    LET S == EntryKeys(src)
        T == EntryKeys(dst)
    IN  [create |-> {k \in S : k \notin T},
         update |-> {k \in S \cap T :
                        ChangedIn(AttrsAt(src, k), AttrsAt(dst, k)) # {}},
         delete |-> {k \in T : k \notin S},
         unchanged |-> {k \in S \cap T :
                           ChangedIn(AttrsAt(src, k), AttrsAt(dst, k)) = {}}]

\* the diff of the data target job, and the attributes an update is handed
ChangedAttrs(s, t) == ChangedIn(AttrsOf(s), AttrsOf(t))
DiffOf(src, dst) ==
    DiffEntries({Entry(o) : o \in src}, {Entry(o) : o \in dst})

\* the diff of the data source job
PullDiffOf(src, dst) ==
    DiffEntries({PullEntry(o) : o \in src}, {PullEntry(o) : o \in dst})

NoDiff == [create |-> {}, update |-> {}, delete |-> {}, unchanged |-> {}]

ActionOf(d, k) ==
    IF k \in d.create THEN "create"
    ELSE IF k \in d.update THEN "update" ELSE "delete"

\* the orders in which a set of keys may have been loaded
Orders(ks) ==
    {q \in [1..Cardinality(ks) -> ks] :
        \A i \in DOMAIN q, j \in DOMAIN q : i # j => q[i] # q[j]}

Elements(d, q) == [i \in DOMAIN q |-> [key |-> q[i], action |-> ActionOf(d, q[i])]]

(* The sync goes through the elements of the diff in the order the diff got
   them: the objects of the source in the order the source adapter loaded
   them, then the objects only the target has, in the order the target
   adapter loaded them.  An element without a change has no action. *)
SyncPlans(d) ==
    {Elements(d, q1) \o Elements(d, q2) :
        q1 \in Orders(d.create \cup d.update), q2 \in Orders(d.delete)}

-----------------------------------------------------------------------------
(* VLANRemoteModel.create / update / delete and the HTTP methods *)

\* dict.get(key, default)
DictGet(d, f, default) == IF f \in DOMAIN d THEN d[f] ELSE default

\* the JSON body create() posts; attrs holds the attribute fields only
CreateBody(ids, attrs) ==
    [vid |-> ids.vid, name |-> ids.name,
     status |-> Lower(attrs["status__name"]),
     group__name |-> DictGet(attrs, "vlan_group__name", None),
     description |-> attrs["description"]]

\* the JSON body update() patches; attrs holds the changed attributes only
UpdateBody(attrs) ==
    [f \in {g \in {"description", "status"} :
              \/ g = "description" /\ "description" \in DOMAIN attrs
              \/ g = "status" /\ "status__name" \in DOMAIN attrs}
       |-> IF f = "description" THEN attrs["description"]
           ELSE attrs["status__name"]]

\* self.pk of the object update() and delete() address
PathId(obj) == obj.pk

\* the ids and attrs the sync hands to create() and update()
IdsOf(o) ==
    [vid |-> o.vid, name |-> o.name, vlan_group__name |-> o.vlan_group__name]
ChangedDict(s, t) == [f \in ChangedAttrs(s, t) |-> s[f]]

\* the object super().create() stores in the target adapter
CreatedObject(ids, attrs) ==
    [vid |-> ids.vid, name |-> ids.name,
     vlan_group__name |-> ids.vlan_group__name,
     description |-> attrs["description"],
     status__name |-> attrs["status__name"], pk |-> NoPk]

\* the object super().update() leaves in the target adapter
UpdatedObject(obj, attrs) ==
    [obj EXCEPT !.description = DictGet(attrs, "description", @),
                !.status__name = DictGet(attrs, "status__name", @)]

(* The remote system: POST stores the fields of the body it knows (a VLAN's
   group is the field "group"), PATCH changes the fields of the body *)
RemoteCreated(id, body) ==
    [id |-> id, vid |-> body.vid, name |-> body.name,
     group |-> DictGet(body, "group", None),
     description |-> body.description, status |-> body.status]
RemotePatched(item, body) ==
    [item EXCEPT !.description = DictGet(body, "description", @),
                 !.status = DictGet(body, "status", @)]

RemoteIds == {i.id : i \in remote}
Responses == {"ok", "transient", "permanent"}

\* raise_for_status(): an HTTPError on every response that is not a success
RaisesForStatus(resp) == resp # "ok"

-----------------------------------------------------------------------------
(* ExampleDataTarget: one run of the job *)

\* a value run() may return is a record that carries its type
NoReturn == [type |-> "not returned"]
ReturnsNone == [type |-> "NoneType"]

\* an exception raised while an adapter loads: load_source_adapter and
\* load_target_adapter have no handler, it leaves run()
AfterLoadErrorIgnored(next) == next
AfterLoadError(next) == "raised"

\* the same in the data source job, which does not override run()
PullAfterLoadError(next) == "raised"
PullRunReturns(d) == ReturnsNone

\* an exception raised by post / patch / delete: create, update and delete
\* have no handler and it is no ObjectCrudException, it leaves run()
AfterRequestError(next) == "raised"

\* run() ends with the call of super().run(): it has no return statement
RunReturns(d) == ReturnsNone

\* run() hands dryrun on: the sync is skipped when it is set
SkipSyncNever(dr) == FALSE
SkipSync(dr) == dr

InitialRemotes ==
    UNION {[1..n -> RemoteFields] : n \in 0..MaxRemote}

WithIds(f) ==
    {[id |-> i, vid |-> f[i].vid, name |-> f[i].name, group |-> f[i].group,
      description |-> f[i].description, status |-> f[i].status] :
        i \in DOMAIN f}

\* the primary keys the two tables give to their first rows
FirstPks == [software |-> 1, association |-> 1]

\* the GetShowVersion job is not running
VersionIdle ==
    /\ swStore = {} /\ relStore = {} /\ nextPk = FirstPks /\ queue = <<>>
    /\ task = [device |-> None, platform |-> None, raw_version |-> None,
               parsed_version |-> None, nautobot_software |-> NoPk]
    /\ vpc = "idle" /\ runNo = 0
    /\ parsedLog = {} /\ writeLog = {}

Init ==
    /\ job \in {"ExampleDataTarget", "ExampleDataSource"}
    /\ nautobot \in {rows \in SUBSET NautobotRows : Cardinality(rows) <= MaxSrc}
    /\ \E f \in InitialRemotes :
          /\ remote = WithIds(f)
          /\ remote0 = WithIds(f)
          /\ remoteNextId = Len(f) + 1
    \* the data source job writes to Nautobot through the framework's
    \* NautobotModel alone: only its dry runs are part of this model
    /\ dryrun \in (IF job = "ExampleDataSource" THEN {TRUE} ELSE BOOLEAN)
    /\ phase = "start"
    /\ sourceSnap = {} /\ targetSnap = {}
    /\ diff = NoDiff /\ plan = <<>> /\ reqs = <<>>
    /\ raised = None /\ returned = NoReturn
    /\ VersionIdle

\* load_source_adapter: the Nautobot adapter loads every VLAN row
LoadSourceAdapter ==
    /\ job = "ExampleDataTarget" /\ phase = "start"
    /\ IF NautobotLoadRaises(nautobot)
       THEN /\ raised' = "load_source"
            /\ phase' = AfterLoadError("source_loaded")
            /\ sourceSnap' = IF phase' = "raised" THEN sourceSnap
                              ELSE NautobotLoad(nautobot)
       ELSE /\ sourceSnap' = NautobotLoad(nautobot)
            /\ phase' = "source_loaded"
            /\ UNCHANGED raised
    /\ UNCHANGED <<job, nautobot, remote, remoteNextId, dryrun, targetSnap, diff,
                   plan, reqs, returned, remote0, versionVars>>

\* load_target_adapter: the remote adapter sends its GET and adds the items
LoadTargetAdapter ==
    /\ job = "ExampleDataTarget" /\ phase = "source_loaded"
    /\ \E readOk \in BOOLEAN :
          IF ~readOk \/ RemoteLoadRaises(remote)
          THEN /\ raised' = "load_target"
               /\ phase' = AfterLoadError("target_loaded")
               /\ targetSnap' = IF phase' = "raised" \/ ~readOk
                                THEN targetSnap ELSE RemoteLoad(remote)
          ELSE /\ targetSnap' = RemoteLoad(remote)
               /\ phase' = "target_loaded"
               /\ UNCHANGED raised
    /\ UNCHANGED <<job, nautobot, remote, remoteNextId, dryrun, sourceSnap, diff,
                   plan, reqs, returned, remote0, versionVars>>

\* calculate_diff, then execute_sync unless dryrun
CalculateDiff ==
    /\ job = "ExampleDataTarget" /\ phase = "target_loaded"
    /\ diff' = DiffOf(sourceSnap, targetSnap)
    /\ IF SkipSync(dryrun)
       THEN phase' = "done" /\ plan' = <<>> /\ returned' = RunReturns(diff')
       ELSE phase' = "syncing" /\ plan' \in SyncPlans(diff')
                               /\ UNCHANGED returned
    /\ UNCHANGED <<job, nautobot, remote, remoteNextId, dryrun, sourceSnap,
                   targetSnap, reqs, raised, remote0, versionVars>>

Logged(method, id, key, resp) ==
    Append(reqs, [method |-> method, id |-> id, key |-> key, resp |-> resp])

\* the sync reaches a create element: VLANRemoteModel.create
SyncCreate ==
    /\ phase = "syncing" /\ plan # <<>> /\ Head(plan).action = "create"
    /\ LET src == ObjOf(sourceSnap, Head(plan).key)
           ids == IdsOf(src)
           attrs == AttrsOf(src)
       IN  \E resp \in Responses :
             /\ reqs' = Logged("POST", NoPk, Head(plan).key, resp)
             /\ IF RaisesForStatus(resp)
                THEN /\ raised' = "sync"
                     /\ phase' = AfterRequestError("syncing")
                     /\ UNCHANGED <<remote, remoteNextId, targetSnap>>
                ELSE /\ remote' = remote \cup
                          {RemoteCreated(remoteNextId, CreateBody(ids, attrs))}
                     /\ remoteNextId' = remoteNextId + 1
                     /\ targetSnap' = targetSnap \cup {CreatedObject(ids, attrs)}
                     /\ UNCHANGED <<raised, phase>>
    /\ plan' = Tail(plan)
    /\ UNCHANGED <<job, nautobot, dryrun, sourceSnap, diff, returned, remote0,
                   versionVars>>

\* the sync reaches an update element: VLANRemoteModel.update
SyncUpdate ==
    /\ phase = "syncing" /\ plan # <<>> /\ Head(plan).action = "update"
    /\ LET src == ObjOf(sourceSnap, Head(plan).key)
           obj == ObjOf(targetSnap, Head(plan).key)
           attrs == ChangedDict(src, obj)
           id == PathId(obj)
       IN  \E resp \in Responses :
             /\ id \notin RemoteIds => resp # "ok"
             /\ reqs' = Logged("PATCH", id, Head(plan).key, resp)
             /\ IF RaisesForStatus(resp)
                THEN /\ raised' = "sync"
                     /\ phase' = AfterRequestError("syncing")
                     /\ UNCHANGED <<remote, targetSnap>>
                ELSE /\ remote' =
                          {IF i.id = id THEN RemotePatched(i, UpdateBody(attrs))
                           ELSE i : i \in remote}
                     /\ targetSnap' = (targetSnap \ {obj}) \cup
                                          {UpdatedObject(obj, attrs)}
                     /\ UNCHANGED <<raised, phase>>
    /\ plan' = Tail(plan)
    /\ UNCHANGED <<job, nautobot, remoteNextId, dryrun, sourceSnap, diff,
                   returned, remote0, versionVars>>

\* the sync reaches a delete element: VLANRemoteModel.delete
SyncDelete ==
    /\ phase = "syncing" /\ plan # <<>> /\ Head(plan).action = "delete"
    /\ LET obj == ObjOf(targetSnap, Head(plan).key)
           id == PathId(obj)
       IN  \E resp \in Responses :
             /\ id \notin RemoteIds => resp # "ok"
             /\ reqs' = Logged("DELETE", id, Head(plan).key, resp)
             /\ IF RaisesForStatus(resp)
                THEN /\ raised' = "sync"
                     /\ phase' = AfterRequestError("syncing")
                     /\ UNCHANGED <<remote, targetSnap>>
                ELSE /\ remote' = {i \in remote : i.id # id}
                     /\ targetSnap' = targetSnap \ {obj}
                     /\ UNCHANGED <<raised, phase>>
    /\ plan' = Tail(plan)
    /\ UNCHANGED <<job, nautobot, remoteNextId, dryrun, sourceSnap, diff,
                   returned, remote0, versionVars>>

\* the sync went through every element: run() returns
SyncDone ==
    /\ phase = "syncing" /\ plan = <<>>
    /\ phase' = "done"
    /\ returned' = RunReturns(diff)
    /\ UNCHANGED <<job, nautobot, remote, remoteNextId, dryrun, sourceSnap,
                   targetSnap, diff, plan, reqs, raised, remote0, versionVars>>

\* ExampleDataSource.load_source_adapter: pynetbox reads every VLAN
PullLoadSourceAdapter ==
    /\ job = "ExampleDataSource" /\ phase = "start"
    /\ \E readOk \in BOOLEAN :
          IF ~readOk \/ PullRemoteLoadRaises(remote)
          THEN /\ raised' = "load_source"
               /\ phase' = PullAfterLoadError("source_loaded")
               /\ UNCHANGED sourceSnap
          ELSE /\ sourceSnap' = PullRemoteLoad(remote)
               /\ phase' = "source_loaded"
               /\ UNCHANGED raised
    /\ UNCHANGED <<job, nautobot, remote, remoteNextId, dryrun, targetSnap,
                   diff, plan, reqs, returned, remote0, versionVars>>

\* ExampleDataSource.load_target_adapter: the Nautobot adapter loads the
\* rows; the lookup of a field of the model on a row may fail
PullLoadTargetAdapter ==
    /\ job = "ExampleDataSource" /\ phase = "source_loaded"
    /\ \E resolves \in BOOLEAN :
          IF ~resolves \/ PullNautobotLoadRaises(nautobot)
          THEN /\ raised' = "load_target"
               /\ phase' = PullAfterLoadError("target_loaded")
               /\ UNCHANGED targetSnap
          ELSE /\ targetSnap' = PullNautobotLoad(nautobot)
               /\ phase' = "target_loaded"
               /\ UNCHANGED raised
    /\ UNCHANGED <<job, nautobot, remote, remoteNextId, dryrun, sourceSnap,
                   diff, plan, reqs, returned, remote0, versionVars>>

\* calculate_diff of the data source job, in a dry run
PullCalculateDiff ==
    /\ job = "ExampleDataSource" /\ phase = "target_loaded" /\ dryrun
    /\ diff' = PullDiffOf(sourceSnap, targetSnap)
    /\ phase' = "done"
    /\ returned' = PullRunReturns(diff')
    /\ UNCHANGED <<job, nautobot, remote, remoteNextId, dryrun, sourceSnap,
                   targetSnap, plan, reqs, raised, remote0, versionVars>>

Next ==
    \/ PullLoadSourceAdapter
    \/ PullLoadTargetAdapter
    \/ PullCalculateDiff
    \/ LoadSourceAdapter
    \/ LoadTargetAdapter
    \/ CalculateDiff
    \/ SyncCreate
    \/ SyncUpdate
    \/ SyncDelete
    \/ SyncDone

Spec == Init /\ [][Next]_vars

-----------------------------------------------------------------------------
(* Properties of the data target job *)

ItemKey(item) == <<item.vid, item.name, item.group>>
Failed(i) == reqs[i].resp # "ok"
RunEnded == phase \in {"done", "raised"}

\* C1 - Convergence: after a sync whose every request succeeded, reloading
\* the remote adapter and diffing the source against it again yields no
\* create, no update and no delete.
ConvergenceAfterSync ==
    (phase = "done" /\ ~dryrun /\ \A i \in DOMAIN reqs : ~Failed(i)) =>
        /\ ~RemoteLoadRaises(remote)
        /\ sourceSnap = NautobotLoad(nautobot)
        /\ LET again == DiffOf(sourceSnap, RemoteLoad(remote))
           IN  again.create = {} /\ again.update = {} /\ again.delete = {}

\* C2 - Failure isolation: a failed request does not end the run; every
\* operation of the change set is still attempted and the run returns.
FailureIsolation ==
    (\E i \in DOMAIN reqs : Failed(i)) =>
        /\ phase \in {"syncing", "done"}
        /\ raised = None
        /\ Len(reqs) + Len(plan)
              = Cardinality(diff.create \cup diff.update \cup diff.delete)

MethodRank(m) == IF m = "POST" THEN 1 ELSE IF m = "PATCH" THEN 2 ELSE 3
ActionRank(a) == IF a = "create" THEN 1 ELSE IF a = "update" THEN 2 ELSE 3

\* C3 - Apply ordering: creates are attempted before updates, updates before
\* deletes; no PATCH or DELETE is sent while a create of the change set is
\* still to be attempted, no DELETE while an update is.
ApplyOrdering ==
    /\ \A i \in DOMAIN reqs, j \in DOMAIN reqs :
          i < j => MethodRank(reqs[i].method) <= MethodRank(reqs[j].method)
    /\ \A i \in DOMAIN reqs, k \in DOMAIN plan :
          MethodRank(reqs[i].method) <= ActionRank(plan[k].action)

\* the diff as the run calculated it, before the sync changed anything
DiffFresh == phase \in {"syncing", "done"} /\ reqs = <<>>

\* what the claim says of a diff d: S and T are the identity keys of the
\* source and of the target, E the keys of both whose objects agree on every
\* declared attribute
IsPartition(d, S, T, E) ==
    /\ d.create \cup d.update \cup d.delete \cup d.unchanged = S \cup T
    /\ \A k \in S \cup T :
          /\ k \in d.create <=> (k \in S /\ k \notin T)
          /\ k \in d.delete <=> (k \in T /\ k \notin S)
          /\ k \in d.update <=> (k \in S /\ k \in T /\ k \notin E)
          /\ k \in d.unchanged <=> (k \in S /\ k \in T /\ k \in E)
          /\ Cardinality({c \in {"create", "update", "delete", "unchanged"} :
                             k \in d[c]}) = 1

\* the data target's model: identifiers vid, name, vlan_group__name and
\* attributes description, status__name
TargetJobPartition ==
    IsPartition(diff,
        {<<o.vid, o.name, o.vlan_group__name>> : o \in sourceSnap},
        {<<o.vid, o.name, o.vlan_group__name>> : o \in targetSnap},
        {<<s.vid, s.name, s.vlan_group__name>> : s \in
            {o \in sourceSnap : \E t \in targetSnap :
                /\ t.vid = o.vid /\ t.name = o.name
                /\ t.vlan_group__name = o.vlan_group__name
                /\ t.description = o.description
                /\ t.status__name = o.status__name}})

\* the data source's model: identifiers vid, group__name and attribute
\* description
SourceJobPartition ==
    IsPartition(diff,
        {<<o.vid, o.group__name>> : o \in sourceSnap},
        {<<o.vid, o.group__name>> : o \in targetSnap},
        {<<s.vid, s.group__name>> : s \in
            {o \in sourceSnap : \E t \in targetSnap :
                /\ t.vid = o.vid /\ t.group__name = o.group__name
                /\ t.description = o.description}})

PaginatedLoadComplete ==
    /\ (job = "ExampleDataTarget" /\ phase = "target_loaded") =>
          /\ \A i \in remote : \E o \in targetSnap : Key(o) = ItemKey(i)
          /\ Cardinality(targetSnap) = Cardinality(remote)
    /\ (job = "ExampleDataSource" /\ phase = "source_loaded") =>
          /\ \A i \in remote :
                \E o \in sourceSnap : PullKey(o) = <<i.vid, i.group>>
          /\ Cardinality(sourceSnap) = Cardinality(remote)

\* C6 - Handle addressing: every PATCH and DELETE is addressed to the id of
\* the remote item that has the identity key of the object it is sent for.
HandleAddressing ==
    \A i \in DOMAIN reqs :
        reqs[i].method \in {"PATCH", "DELETE"} =>
            \E item \in remote \cup remote0 :
                item.id = reqs[i].id /\ ItemKey(item) = reqs[i].key

\* C7 - Load failure aborts the run: when loading the source or the target
\* fails, the run ends with that error and no POST, PATCH or DELETE is sent.
LoadFailureAborts ==
    raised \in {"load_source", "load_target"} =>
        /\ phase = "raised"
        /\ reqs = <<>>
        /\ remote = remote0
LoadFailureWitness ==
    /\ job = "ExampleDataTarget" /\ ~dryrun
    /\ raised = "load_target" /\ RemoteLoadRaises(remote)
    /\ phase = "raised" /\ sourceSnap # {}

\* the create / update / delete / unchanged counts of a diff
Counts(d) ==
    [create |-> Cardinality(d.create), update |-> Cardinality(d.update),
     delete |-> Cardinality(d.delete),
     unchanged |-> Cardinality(d.unchanged)]

SentFor(i) ==
    {j \in DOMAIN reqs :
        reqs[j].method = reqs[i].method /\ reqs[j].key = reqs[i].key}

\* C9 - Retry policy: a request that failed with a transient error is sent
\* again at least once before the failure stands; one that failed with a
\* permanent error is sent exactly once.
RetryPolicy ==
    RunEnded =>
        \A i \in DOMAIN reqs :
            /\ reqs[i].resp = "transient" => Cardinality(SentFor(i)) >= 2
            /\ reqs[i].resp = "permanent" => Cardinality(SentFor(i)) = 1

-----------------------------------------------------------------------------
(* GetShowVersion: the job that reads a device's software version *)

MaxRuns == 2
MaxDevices == 2
MaxRawLen == 2

\* the devices of the job form, each with its platform's network driver
DeviceNames == {"d1", "d2", "d3"}
NetworkDriver(d) ==
    CASE d = "d1" -> "cisco_ios"
      [] d = "d2" -> "cisco_ios"
      [] OTHER -> "arista_eos"

supported_drivers == {"keymile_nos", "cisco_xr", "cisco_ios"}

(* The output of "show version" is a sequence of words separated by one
   space; a word is a sequence of symbols, a symbol being a comma or a
   string without comma and space.  PatternText is the text a pattern has
   before its group (\S+), word by word; the group is the word that follows
   the text. *)
PatternText(platform) ==
    CASE platform = "arista_eos" ->
            << <<"Software">>, <<"image">>, <<"version:">> >>
      [] platform = "keymile_nos" -> << <<"NOS">>, <<"version">> >>
      [] platform = "cisco_xr" ->
            << <<"Cisco">>, <<"IOS">>, <<"XR">>, <<"Software", ",">>,
               <<"Version">> >>
      [] OTHER -> << <<"Version">> >>

Words == {<<"Version">>, <<"7", ",">>, <<"8">>}

RawOutputs == UNION {[1..n -> Words] : n \in 0..MaxRawLen}

\* re.search(pattern, raw): the places where the pattern matches
Matches(platform, raw) ==
    LET text == PatternText(platform)
    IN  {i \in 1..(Len(raw) - Len(text)) :
            SubSeq(raw, i, i + Len(text) - 1) = text}

\* match.group(1) of the leftmost match
Group1(platform, raw) ==
    LET i == CHOOSE m \in Matches(platform, raw) :
                 \A n \in Matches(platform, raw) : m <= n
    IN  raw[i + Len(PatternText(platform))]

\* str.strip(','): the commas at both ends removed
RECURSIVE StripLeft(_)
StripLeft(w) ==
    IF w # <<>> /\ Head(w) = "," THEN StripLeft(Tail(w)) ELSE w
RECURSIVE StripRight(_)
StripRight(w) ==
    IF w # <<>> /\ w[Len(w)] = ","
    THEN StripRight(SubSeq(w, 1, Len(w) - 1)) ELSE w
Strip(w) == StripRight(StripLeft(w))

\* SoftwareLCM.objects.filter(version=v)
SoftwareWith(v) == {sw \in swStore : sw.version = v}

\* SoftwareLCM.objects.filter(version=v).exists()
SoftwareExistsNever(v) == FALSE
SoftwareExists(v) == SoftwareWith(v) # {}

\* RelationshipAssociation.objects.filter(relationship, source_id,
\* destination_id).exists()
AssociationExists(source_id, destination_id) ==
    \E a \in relStore :
        a.source_id = source_id /\ a.destination_id = destination_id

\* the device lists a run may be given: devices of the form, each once
RECURSIVE Distinct(_)
Distinct(q) ==
    q = <<>> \/ (Head(q) \notin {Tail(q)[i] : i \in DOMAIN Tail(q)}
                 /\ Distinct(Tail(q)))
DeviceLists ==
    {q \in UNION {[1..n -> DeviceNames] : n \in 1..MaxDevices} : Distinct(q)}

NoTask ==
    [device |-> None, platform |-> None, raw_version |-> None,
     parsed_version |-> None, nautobot_software |-> NoPk]

SyncIdle ==
    /\ job = None /\ nautobot = {} /\ remote = {} /\ remote0 = {} /\ remoteNextId = 1
    /\ dryrun = FALSE /\ phase = "idle"
    /\ sourceSnap = {} /\ targetSnap = {}
    /\ diff = NoDiff /\ plan = <<>> /\ reqs = <<>> /\ raised = None
    /\ returned = NoReturn

InitVersion ==
    /\ swStore = {} /\ relStore = {} /\ nextPk = FirstPks
    /\ queue = <<>> /\ task = NoTask /\ vpc = "idle" /\ runNo = 0
    /\ parsedLog = {} /\ writeLog = {}
    /\ SyncIdle

\* GetShowVersion.run(devices) is called
StartRun ==
    /\ vpc = "idle" /\ runNo < MaxRuns
    /\ \E devices \in DeviceLists : queue' = devices
    /\ runNo' = runNo + 1
    /\ vpc' = "next"
    /\ task' = NoTask
    /\ parsedLog' = {} /\ writeLog' = {}
    /\ UNCHANGED <<swStore, relStore, nextPk, syncVars>>

\* for device in devices: task = OnboardVersion(device)
NewTask ==
    /\ vpc = "next" /\ queue # <<>>
    /\ LET device == Head(queue)
           platform == NetworkDriver(device)
       IN  IF platform \notin supported_drivers
           THEN vpc' = "failed" /\ UNCHANGED task
           ELSE /\ task' = [NoTask EXCEPT !.device = device,
                                          !.platform = platform]
                /\ vpc' = "get_version"
    /\ UNCHANGED <<swStore, relStore, nextPk, queue, runNo, parsedLog,
                   writeLog, syncVars>>

\* OnboardVersion.get_version: ping, connect, send the command
GetVersion ==
    /\ vpc = "get_version"
    /\ \E reachable \in BOOLEAN, raw \in RawOutputs :
          IF ~reachable
          THEN vpc' = "failed" /\ UNCHANGED task
          ELSE /\ task' = [task EXCEPT !.raw_version = raw]
               /\ vpc' = "parse_version"
    /\ UNCHANGED <<swStore, relStore, nextPk, queue, runNo, parsedLog,
                   writeLog, syncVars>>

\* OnboardVersion.parse_version
ParseVersion ==
    /\ vpc = "parse_version"
    /\ IF Matches(task.platform, task.raw_version) # {}
       THEN /\ task' = [task EXCEPT !.parsed_version =
                           Strip(Group1(task.platform, task.raw_version))]
            /\ parsedLog' = parsedLog \cup {task.device}
            /\ vpc' = "import_to_nautobot"
       ELSE vpc' = "failed" /\ UNCHANGED <<task, parsedLog>>
    /\ UNCHANGED <<swStore, relStore, nextPk, queue, runNo, writeLog,
                   syncVars>>

\* OnboardVersion.import_to_nautobot
ImportToNautobot ==
    /\ vpc = "import_to_nautobot"
    /\ IF SoftwareExists(task.parsed_version)
       THEN IF Cardinality(SoftwareWith(task.parsed_version)) = 1
            THEN /\ task' = [task EXCEPT !.nautobot_software =
                       (CHOOSE sw \in SoftwareWith(task.parsed_version) :
                            TRUE).pk]
                 /\ vpc' = "assign_to_device"
                 /\ UNCHANGED <<swStore, nextPk, writeLog>>
            ELSE \* objects.get() raises MultipleObjectsReturned
                 vpc' = "failed" /\ UNCHANGED <<task, swStore, nextPk, writeLog>>
       ELSE \E saved \in BOOLEAN :
              IF saved
              THEN /\ swStore' = swStore \cup
                          {[pk |-> nextPk.software, version |-> task.parsed_version,
                            device_platform |-> task.platform]}
                   /\ nextPk' = [nextPk EXCEPT !.software = @ + 1]
                   /\ task' = [task EXCEPT !.nautobot_software =
                                                nextPk.software]
                   /\ writeLog' = writeLog \cup {task.device}
                   /\ vpc' = "assign_to_device"
              ELSE \* validated_save() raises
                   vpc' = "failed" /\ UNCHANGED <<task, swStore, nextPk, writeLog>>
    /\ UNCHANGED <<relStore, queue, runNo, parsedLog, syncVars>>

\* OnboardVersion.assign_to_device, then the loop goes to the next device
AssignToDevice ==
    /\ vpc = "assign_to_device"
    /\ IF AssociationExists(task.nautobot_software, task.device)
       THEN /\ queue' = Tail(queue) /\ vpc' = "next"
            /\ UNCHANGED <<relStore, nextPk, writeLog>>
       ELSE \E saved \in BOOLEAN :
              IF saved
              THEN /\ relStore' = relStore \cup
                          {[pk |-> nextPk.association,
                            source_id |-> task.nautobot_software,
                            destination_id |-> task.device]}
                   /\ nextPk' = [nextPk EXCEPT !.association = @ + 1]
                   /\ writeLog' = writeLog \cup {task.device}
                   /\ queue' = Tail(queue) /\ vpc' = "next"
              ELSE \* validated_save() raises
                   /\ vpc' = "failed"
                   /\ UNCHANGED <<relStore, nextPk, writeLog, queue>>
    /\ UNCHANGED <<swStore, task, runNo, parsedLog, syncVars>>

\* the loop is through: run() returns
RunDone ==
    /\ vpc = "next" /\ queue = <<>>
    /\ vpc' = "idle"
    /\ task' = NoTask
    /\ UNCHANGED <<swStore, relStore, nextPk, queue, runNo, parsedLog,
                   writeLog, syncVars>>

\* an exception left run(): the job ends, the devices left are not visited
RunFailed ==
    /\ vpc = "failed"
    /\ vpc' = "idle"
    /\ queue' = <<>>
    /\ task' = NoTask
    /\ UNCHANGED <<swStore, relStore, nextPk, runNo, parsedLog, writeLog,
                   syncVars>>

NextVersion ==
    \/ StartRun
    \/ NewTask
    \/ GetVersion
    \/ ParseVersion
    \/ ImportToNautobot
    \/ AssignToDevice
    \/ RunDone
    \/ RunFailed

SpecVersion == InitVersion /\ [][NextVersion]_vars

\* C10 - GetShowVersion: over any sequence of runs the store never holds two
\* software rows with one version string nor two associations of one
\* (software, device) pair, and a row is written for a device only after its
\* version was parsed in that run.
NoDuplicateRows ==
    /\ \A s1 \in swStore, s2 \in swStore :
          s1.version = s2.version => s1 = s2
    /\ \A a1 \in relStore, a2 \in relStore :
          (a1.source_id = a2.source_id
             /\ a1.destination_id = a2.destination_id) => a1 = a2
    /\ writeLog \subseteq parsedLog
    /\ \A a \in relStore : \E sw \in swStore : sw.pk = a.source_id
NoDuplicateWitness ==
    /\ runNo = MaxRuns /\ vpc = "idle"
    /\ Cardinality(swStore) = 1
    /\ Cardinality(relStore) = 2
    /\ Cardinality(writeLog) = 1

====
